---- MODULE Spec2Model ----
(***************************************************************************)
(* State-machine model of src/src/oee/oee_monitor.py: the OEEMonitor       *)
(* object, its serial connection logic (get_serial_connection), the        *)
(* polling loop (run), the OEE formulas (calculate_oee) and the log        *)
(* writer (log_to_db).                                                     *)
(*                                                                         *)
(* Time is the wall clock time.time() in whole seconds (the floor of the   *)
(* float the program reads), so a tick of the 0.1 s polling cadence has an *)
(* elapsed time of 0 or more seconds.  The wall clock is not monotonic: an *)
(* external adjustment may set it back.                                    *)
(***************************************************************************)
EXTENDS Integers, Sequences, FiniteSets, TLC

\* ------------------------------------------------------------------ bounds
MaxClock == 6        \* a run is explored up to this second after its launch
MaxStep == 1         \* longest time between two consecutive reads of the clock by the loop
MaxWait == 7         \* the sleeps of get_serial_connection are explored up to this second
MaxBack == 1         \* largest backward adjustment of the wall clock
MaxElapsed == 3      \* calculate_oee: largest time since start_time and largest accumulator
MaxCount == 2        \* calculate_oee: largest total_count and defect_count

\* ------------------------------------------------------- program constants
SettleDelay == 2         \* time.sleep(2) after a successful open
BackoffDelay == 5        \* time.sleep(5) after a failed round
HeartbeatInterval == 1   \* heartbeat_due: now - last_log_time >= 1.0

None == "None"
NoSer == [dev |-> <<>>, open |-> FALSE]

ProductionStates == {"STOPPED", "GREEN", "YELLOW", "RED"}

\* ---------------------------------------------------------- configuration
\* The values load_config hands to __init__ : the production section
\* (target_steps, ideal_cycle_time in seconds) and the serial port.
DefaultPort == <<"c", "u", ".", "u", "s", "b">>

Configs ==
    { [target_steps |-> 1, ideal_cycle_time |-> 2],
      [target_steps |-> 2, ideal_cycle_time |-> 0] }

\* ------------------------------------------------------------- text helpers
\* str.lower() on the characters that occur in device names.
LowerChar(c) ==
    CASE c = "U" -> "u"
      [] c = "S" -> "s"
      [] c = "B" -> "b"
      [] c = "T" -> "t"
      [] c = "Y" -> "y"
      [] OTHER -> c

Lower(s) == [i \in 1..Len(s) |-> LowerChar(s[i])]

\* sub in s  (substring test of Python's `in` on strings)
Contains(s, sub) ==
    \E i \in 0..(Len(s) - Len(sub)) :
        \A j \in 1..Len(sub) : s[i + j] = sub[j]

\* 'usb' in p.device.lower()
IsUsbCandidate(dev) == Contains(Lower(dev), <<"u", "s", "b">>)

\* serial.tools.list_ports.comports(): the device names the host enumerates,
\* in enumeration order; what is plugged in differs from call to call.
TtyS0 == <<"t", "t", "y", "S", "0">>
UsbA == <<"t", "t", "y", "U", "S", "B", "0">>
UsbB == <<"c", "u", ".", "u", "s", "b", "1">>

\* The serial devices of the host the monitor runs on, in enumeration order.
HostPorts == <<TtyS0, UsbA>>

\* What comports() can return on a host with the devices h: nothing plugged
\* in, or all of them.
Enumerations(h) == { <<>>, h }

\* ------------------------------------------------------------------- state
VARIABLES
    host,               \* the serial devices of the host, as comports() lists them
    pc,                 \* control position of the process
    caller,             \* who called get_serial_connection: "init" or "run"
    ports,              \* get_serial_connection: the list comports() returned for this round
    scan_i,             \* get_serial_connection: position of the for loop in ports
    port,               \* self.port
    ser,                \* self.ser : the connection handle
    clock,              \* the wall clock, time.time()
    adjusted,           \* the wall clock has been set back during this run (at most once)
    target_steps,       \* self.target_steps
    ideal_cycle_time,   \* self.ideal_cycle_time
    current_state,      \* self.current_state
    start_time,         \* self.start_time
    time_production,    \* self.time_production
    time_setup,         \* self.time_setup
    time_downtime,      \* self.time_downtime
    last_update_time,   \* self.last_update_time
    total_count,        \* self.total_count
    defect_count,       \* self.defect_count
    last_logged_state,  \* run: last_logged_state
    last_log_time,      \* run: last_log_time
    row,                \* the row the last step inserted into oee_logs, NoRow if none
    step,               \* what the last step of the process was
    wrote,              \* what the last step did with the log: "none", "ok" or "failed"
    fault,              \* the exception that left the process, if any
    attributed,         \* per state: the sum of the elapsed times of the ticks run in it
    outage,             \* link loss bookkeeping: state and clock at the loss
    prior_rows,         \* the rows earlier runs left in the table oee_logs of db_path
    config_yaml,        \* config.yaml in the working directory, as yaml.safe_load sees it
    loaded              \* what load_config made of it, NotLoaded before the call

linkVars == <<host, pc, caller, ports, scan_i, port, ser>>
linkVars_NoPc == <<host, caller, ports, scan_i, port, ser>>
clockVars == <<clock, adjusted>>
configVars == <<target_steps, ideal_cycle_time>>
sinkVars == <<prior_rows>>
fileVars == <<config_yaml, loaded>>
fixedVars == <<configVars, sinkVars, fileVars>>
accVars == <<current_state, start_time, time_production, time_setup, time_downtime,
             last_update_time, total_count, defect_count>>
logVars == <<last_logged_state, last_log_time>>
histVars == <<step, wrote, row, fault, attributed, outage>>

vars == <<linkVars, clockVars, fixedVars, accVars, logVars, histVars>>

NoRow == [state |-> None]
NoOutage == [phase |-> "none", state |-> None, credited |-> None, gap |-> 0]

\* A step of the process that does not call log_to_db.
NoWrite == wrote' = "none" /\ row' = NoRow

\* -------------------------------------------------------------- config.yaml
\* The YAML null: an empty file, a key with no value.
Null == [null |-> TRUE]

\* config.yaml as yaml.safe_load meets it: no such file, text that is not
\* YAML, or a document: null or a mapping (a function of the keys it holds).
Missing == [kind |-> "missing"]
Unparseable == [kind |-> "unparseable"]
Document(value) == [kind |-> "document", value |-> value]

\* The empty mapping, and the mapping of one key.
NoKeys == <<>>
Key(k, v) == k :> v

\* The built-in defaults of both load_config functions.
DefaultTargetSteps == 30
DefaultIdealCycleTime == 20
BaudRate == 9600
DbPath == "oee_data.db"

DefaultProduction ==
    [target_steps |-> DefaultTargetSteps, ideal_cycle_time |-> DefaultIdealCycleTime]

\* Paths are sequences of components, a component a sequence of characters;
\* the component "/" in front makes the path absolute.
Root == <<"/">>
DotDot == <<".", ".">>
Logs == <<"l", "o", "g", "s">>

\* os.path.join(home_dir, "oee-project", "oee_logs")
DefaultLogDir == <<Root, <<"h", "o", "m", "e">>, <<"o", "e", "e">>, Logs>>

DataPaths ==
    { <<Logs>>,                                 \* logs
      <<Logs, DotDot, DotDot, <<"x">>>>,        \* logs/../../x
      <<DotDot, <<"x">>>>,                      \* ../x
      <<Root, <<"e", "t", "c">>>>,              \* /etc
      <<<<".", ".", "d">>>> }                   \* ..d

\* os.path.isabs(p) and p.startswith("..")
IsAbs(path) == path /= <<>> /\ path[1] = Root

StartsWithDotDot(path) ==
    /\ path /= <<>>
    /\ Len(path[1]) >= 2
    /\ path[1][1] = "."
    /\ path[1][2] = "."

\* What a file may hold under each key: the key left out, or one of its values.
SerialSections ==
    { NoKeys, Key("serial", [port |-> DefaultPort, baud_rate |-> BaudRate]) }

ProductionSections ==
    { NoKeys,
      Key("production", Null),
      Key("production", [target_steps |-> 50, ideal_cycle_time |-> 10]),
      Key("production", [target_steps |-> 50]),
      Key("production", [ideal_cycle_time |-> 10]) }

DatabaseSections == { NoKeys, Key("database", [path |-> DbPath]) }

DataPathSettings == { NoKeys } \cup { Key("data_path", path) : path \in DataPaths }

ConfigFiles ==
    {Missing, Unparseable, Document(Null)} \cup
    { Document(s @@ p @@ d @@ dp) :
        s \in SerialSections, p \in ProductionSections, d \in DatabaseSections,
        dp \in DataPathSettings }

NotLoaded == [kind |-> "not loaded"]

\* dict.update that keeps the values the dict has.
Update_KeepOld(dict, with) == dict @@ with

\* dict.update: the keys of the update are added to the dict or replace its.
Update(dict, with) == with @@ dict

\* `if user_config:` : None and the empty mapping are false.
Truthy(value) == value /= Null /\ DOMAIN value /= {}

\* load_config of dashboardv1.py.  raised: the exception the except clause of
\* line 56 caught and printed; warning: st.error was called (line 55).
DashboardLoadConfig(file) ==
    LET defaults == [production |-> DefaultProduction, data_path |-> DefaultLogDir]
        Result(config, raised, warning) ==
            [kind |-> "dashboard", config |-> config, raised |-> raised, warning |-> warning]
    IN  IF file = Missing THEN Result(defaults, None, FALSE)
        ELSE IF file = Unparseable THEN Result(defaults, "yaml.YAMLError", FALSE)
        ELSE IF ~Truthy(file.value) THEN Result(defaults, None, FALSE)
        ELSE LET user_config == file.value
                 HasNullProduction ==
                     "production" \in DOMAIN user_config /\ user_config.production = Null
             IN
             IF HasNullProduction
               THEN Result(defaults, "TypeError", FALSE)
               ELSE LET merged ==
                          IF "production" \in DOMAIN user_config
                            THEN [defaults EXCEPT
                                    !.production = Update(@, user_config.production)]
                            ELSE defaults
                    IN  IF "data_path" \notin DOMAIN user_config
                          THEN Result(merged, None, FALSE)
                        ELSE LET proposed_path == user_config.data_path IN
                             IF IsAbs(proposed_path) \/ ~StartsWithDotDot(proposed_path)
                               THEN Result([merged EXCEPT !.data_path = proposed_path],
                                           None, FALSE)
                               ELSE Result(merged, None, TRUE)

\* The defaults of load_config of oee_monitor.py (lines 13-17).
MonitorDefaults ==
    [serial |-> [port |-> DefaultPort, baud_rate |-> BaudRate],
     production |-> DefaultProduction,
     database |-> [path |-> DbPath]]

\* load_config of oee_monitor.py (lines 9-19) and CONFIG = load_config().
MonitorLoadConfig(file) ==
    IF file = Missing
      THEN [kind |-> "monitor", raised |-> None, config |-> MonitorDefaults]
    ELSE IF file = Unparseable
      THEN [kind |-> "monitor", raised |-> "yaml.YAMLError", config |-> Null]
      ELSE [kind |-> "monitor", raised |-> None, config |-> file.value]

\* config[section][key] of lines 44-48: the exception it raises, if any.
Subscript(config, section, key) ==
    IF config = Null THEN "TypeError"
    ELSE IF section \notin DOMAIN config THEN "KeyError"
    ELSE IF config[section] = Null THEN "TypeError"
    ELSE IF key \notin DOMAIN config[section] THEN "KeyError"
    ELSE None

\* Lines 43-48 of __init__ in their order: the first exception raised, None
\* if all five settings are read.
ReadSettings(config) ==
    LET raised == << Subscript(config, "serial", "port"),
                     Subscript(config, "serial", "baud_rate"),
                     Subscript(config, "production", "target_steps"),
                     Subscript(config, "production", "ideal_cycle_time"),
                     Subscript(config, "database", "path") >>
        failing == { i \in 1..Len(raised) : raised[i] /= None }
    IN  IF failing = {} THEN None
        ELSE raised[CHOOSE i \in failing : \A j \in failing : i <= j]

\* ---------------------------------------------------------------- __init__
\* The state after lines 43-57 of __init__ : the fields are set, init_db is about
\* to be called.
InitAt(launch, devices, configured, earlier) ==
    /\ prior_rows = earlier
    /\ \E cfg \in Configs :
         /\ target_steps = cfg.target_steps
         /\ ideal_cycle_time = cfg.ideal_cycle_time
         /\ config_yaml = Document([serial |-> [port |-> configured, baud_rate |-> BaudRate],
                                    production |-> cfg,
                                    database |-> [path |-> DbPath]])
    /\ loaded = MonitorLoadConfig(config_yaml)
    /\ host = devices
    /\ port = configured
    /\ clock = launch
    /\ adjusted = FALSE
    /\ current_state = "STOPPED"
    /\ start_time = launch
    /\ time_production = 0
    /\ time_setup = 0
    /\ time_downtime = 0
    /\ last_update_time = launch
    /\ total_count = 0
    /\ defect_count = 0
    /\ pc = "init_db"
    /\ caller = "init"
    /\ ports = <<>>
    /\ scan_i = 0
    /\ ser = NoSer
    /\ last_logged_state = None
    /\ last_log_time = launch
    /\ row = NoRow
    /\ step = "construct"
    /\ wrote = "none"
    /\ fault = None
    /\ attributed = [s \in ProductionStates |-> 0]
    /\ outage = NoOutage

\* The monitor is launched at second 0 of the wall clock, a midnight, with the
\* default port configured.
Init == InitAt(0, HostPorts, DefaultPort, 0)

\* ------------------------------------------------------------- the clock
\* time.sleep(d): the process resumes d seconds later.
CanSleep(d) == clock + d - start_time <= MaxWait

\* An external adjustment sets the wall clock back (NTP step, operator) between
\* two iterations of the loop.
ClockAdjust ==
    /\ pc = "running"
    /\ ~adjusted
    /\ \E back \in 1..MaxBack : clock' = clock - back
    /\ adjusted' = TRUE
    /\ UNCHANGED <<linkVars, fixedVars, accVars, logVars, histVars>>

\* ------------------------------------------------------------------ init_db
\* sqlite3.connect / CREATE TABLE IF NOT EXISTS succeeds: __init__ goes on to
\* get_serial_connection.  A table oee_logs that exists is kept with its rows.
InitDbOk ==
    /\ pc = "init_db"
    /\ pc' = "gsc_primary"
    /\ step' = "init_db"
    /\ NoWrite
    /\ UNCHANGED <<host, caller, ports, scan_i, port, ser, clockVars, fixedVars, accVars,
                   logVars, fault, attributed, outage>>

\* init_db raises (unwritable path): nothing in __init__ catches it.
InitDbFail ==
    /\ pc = "init_db"
    /\ pc' = "crashed"
    /\ fault' = "sqlite3.Error"
    /\ step' = "init_db"
    /\ NoWrite
    /\ UNCHANGED <<host, caller, ports, scan_i, port, ser, clockVars, fixedVars, accVars,
                   logVars, attributed, outage>>

\* `return ser` that starts the log bookkeeping anew at every return.
Return_RestartsLog(dev, newport, now) ==
    /\ ser' = [dev |-> dev, open |-> TRUE]
    /\ port' = newport
    /\ clock' = now
    /\ pc' = "running"
    /\ ports' = <<>>
    /\ scan_i' = 0
    /\ last_logged_state' = None
    /\ last_log_time' = now
    /\ outage' = IF caller = "init" THEN outage ELSE [outage EXCEPT !.phase = "resumed"]
    /\ caller' = "run"
    /\ NoWrite
    /\ UNCHANGED <<host, adjusted, fixedVars, accVars, fault, attributed>>

\* ---------------------------------------------------- get_serial_connection
\* `return ser` of get_serial_connection, seen from its two call sites:
\* __init__ (line 60), after which main calls run() (lines 152-153), and the
\* reconnect of run (lines 166-167).
Return(dev, newport, now) ==
    /\ ser' = [dev |-> dev, open |-> TRUE]
    /\ port' = newport
    /\ clock' = now
    /\ pc' = "running"
    /\ ports' = <<>>
    /\ scan_i' = 0
    /\ IF caller = "init"
         THEN /\ last_logged_state' = None
              /\ last_log_time' = now
              /\ outage' = outage
         ELSE /\ UNCHANGED <<last_logged_state, last_log_time>>
              /\ outage' = [outage EXCEPT !.phase = "resumed"]
    /\ caller' = "run"
    /\ NoWrite
    /\ UNCHANGED <<host, adjusted, fixedVars, accVars, fault, attributed>>

\* serial.Serial(self.port, ...) succeeds; time.sleep(2); return ser.
ConnectPrimaryOk ==
    /\ pc = "gsc_primary"
    /\ CanSleep(SettleDelay)
    /\ step' = "connect_primary"
    /\ Return(port, port, clock + SettleDelay)

\* serial.Serial(self.port, ...) raises: the except branch enumerates comports().
ConnectPrimaryFail ==
    /\ pc = "gsc_primary"
    /\ pc' = "gsc_scan"
    /\ \E enum \in Enumerations(host) : ports' = enum
    /\ scan_i' = 1
    /\ step' = "primary_failed"
    /\ NoWrite
    /\ UNCHANGED <<host, caller, port, ser, clockVars, fixedVars, accVars, logVars,
                   fault, attributed, outage>>

ScanPending == pc = "gsc_scan" /\ scan_i <= Len(ports)

\* for p in ports: the device name does not contain 'usb': next candidate.
ScanSkip ==
    /\ ScanPending
    /\ ~IsUsbCandidate(ports[scan_i])
    /\ scan_i' = scan_i + 1
    /\ step' = "scan_skip"
    /\ NoWrite
    /\ UNCHANGED <<host, pc, caller, ports, port, ser, clockVars, fixedVars, accVars,
                   logVars, fault, attributed, outage>>

\* A USB candidate accepts the connection: self.port = p.device; sleep(2); return.
ScanTryOk ==
    /\ ScanPending
    /\ IsUsbCandidate(ports[scan_i])
    /\ CanSleep(SettleDelay)
    /\ step' = "connect_candidate"
    /\ Return(ports[scan_i], ports[scan_i], clock + SettleDelay)

\* A USB candidate refuses the connection: except: pass; next candidate.
ScanTryFail ==
    /\ ScanPending
    /\ IsUsbCandidate(ports[scan_i])
    /\ scan_i' = scan_i + 1
    /\ step' = "candidate_failed"
    /\ NoWrite
    /\ UNCHANGED <<host, pc, caller, ports, port, ser, clockVars, fixedVars, accVars,
                   logVars, fault, attributed, outage>>

\* The for loop is exhausted and get_serial_connection gives up with an error.
ScanEnd_GivesUp ==
    /\ pc = "gsc_scan"
    /\ scan_i > Len(ports)
    /\ pc' = "crashed"
    /\ fault' = "SerialException"
    /\ ports' = <<>>
    /\ scan_i' = 0
    /\ step' = "scan_end"
    /\ NoWrite
    /\ UNCHANGED <<host, caller, port, ser, clockVars, fixedVars, accVars, logVars,
                   attributed, outage>>

\* The for loop is exhausted: the round ends in time.sleep(5).
ScanEnd ==
    /\ pc = "gsc_scan"
    /\ scan_i > Len(ports)
    /\ pc' = "gsc_backoff"
    /\ ports' = <<>>
    /\ scan_i' = 0
    /\ step' = "scan_end"
    /\ NoWrite
    /\ UNCHANGED <<host, caller, port, ser, clockVars, fixedVars, accVars, logVars,
                   fault, attributed, outage>>

\* time.sleep(5) returns: while True starts the next round at the primary port.
Backoff ==
    /\ pc = "gsc_backoff"
    /\ CanSleep(BackoffDelay)
    /\ clock' = clock + BackoffDelay
    /\ pc' = "gsc_primary"
    /\ step' = "backoff"
    /\ NoWrite
    /\ UNCHANGED <<host, caller, ports, scan_i, port, ser, adjusted, fixedVars,
                   accVars, logVars, fault, attributed, outage>>

\* ------------------------------------------------------------ device input
\* What one poll of the device yields: nothing waiting (in_waiting == 0), or
\* the bytes readline() returns.  "xFF" is a byte that is not valid UTF-8.
NoData == <<"nodata">>

RawLines ==
    { <<"G", "R", "E", "E", "N", "LF">>,
      <<"R", "E", "D", "CR", "LF">>,
      <<"SP", "Y", "E", "L", "L", "O", "W", "LF">>,
      <<"B", "L", "U", "E", "LF">>,
      <<"g", "r", "e", "e", "n", "LF">>,
      <<"R", "E">>,
      <<"LF">>,
      <<"R", "E", "D", "xFF", "LF">> }

Whitespace == {"SP", "LF", "CR", "TAB"}

\* bytes.decode(): UTF-8 decoding raises UnicodeDecodeError on an invalid byte.
Decodable(raw) == \A i \in 1..Len(raw) : raw[i] /= "xFF"

\* str.strip(): leading and trailing whitespace removed.
RECURSIVE StripLeft(_)
StripLeft(s) ==
    IF s /= <<>> /\ Head(s) \in Whitespace THEN StripLeft(Tail(s)) ELSE s

RECURSIVE StripRight(_)
StripRight(s) ==
    IF s /= <<>> /\ s[Len(s)] \in Whitespace
      THEN StripRight(SubSeq(s, 1, Len(s) - 1))
      ELSE s

Strip(s) == StripRight(StripLeft(s))

Green == <<"G", "R", "E", "E", "N">>
Red == <<"R", "E", "D">>
Yellow == <<"Y", "E", "L", "L", "O", "W">>

\* Lines 159-162 with an unrecognised line resetting the state to STOPPED.
ReadState_ResetOnNoise(cs, poll) ==
    IF poll = NoData THEN cs
    ELSE LET line == Strip(poll) IN
         CASE line = Green -> "GREEN"
           [] line = Red -> "RED"
           [] line = Yellow -> "YELLOW"
           [] OTHER -> "STOPPED"

\* Lines 159-162: if line in ["GREEN", "RED", "YELLOW"]: self.current_state = line
ReadState(cs, poll) ==
    IF poll = NoData THEN cs
    ELSE LET line == Strip(poll) IN
         CASE line = Green -> "GREEN"
           [] line = Red -> "RED"
           [] line = Yellow -> "YELLOW"
           [] OTHER -> cs

\* ------------------------------------------------------- state accumulator
\* x / y rounded up instead of truncated.
PyIntDiv_RoundUp(x, y) == (x + y - 1) \div y

\* int(x / y) for y > 0: Python's int() truncates toward zero.
PyIntDiv(x, y) == IF x >= 0 THEN x \div y ELSE -((-x) \div y)

\* The clamp of lines 177-178 left out.
ClampExpected_NoClamp(expected, target) == expected

\* Lines 177-178: if expected > self.target_steps: expected = self.target_steps
ClampExpected(expected, target) ==
    IF expected > target THEN target ELSE expected

\* Lines 179-180: if expected > self.total_count: self.total_count = expected
RaiseCount(expected, count) ==
    IF expected > count THEN expected ELSE count

\* Line 183 as a plain `else:` : a tick in STOPPED counted as downtime.
Accumulate_StoppedAsDowntime(cs, elapsed) ==
    [ production |-> IF cs = "GREEN" THEN time_production + elapsed ELSE time_production,
      setup |-> IF cs = "YELLOW" THEN time_setup + elapsed ELSE time_setup,
      downtime |-> IF cs \in {"RED", "STOPPED"}
                     THEN time_downtime + elapsed
                     ELSE time_downtime ]

\* Lines 181-182 left out: the elapsed time of a tick in YELLOW is lost.
Accumulate_SetupDropped(cs, elapsed) ==
    [ production |-> IF cs = "GREEN" THEN time_production + elapsed ELSE time_production,
      setup |-> time_setup,
      downtime |-> IF cs = "RED" THEN time_downtime + elapsed ELSE time_downtime ]

\* Line 175 outside the if of line 174: the elapsed time of every tick is
\* added to time_production, and to the accumulator of its state as well.
Accumulate_AlwaysProduction(cs, elapsed) ==
    [ production |-> time_production + elapsed,
      setup |-> IF cs = "YELLOW" THEN time_setup + elapsed ELSE time_setup,
      downtime |-> IF cs = "RED" THEN time_downtime + elapsed ELSE time_downtime ]

\* Lines 174-184: the accumulators after a tick of `elapsed` seconds in state cs.
Accumulate(cs, elapsed) ==
    [ production |-> IF cs = "GREEN" THEN time_production + elapsed ELSE time_production,
      setup |-> IF cs = "YELLOW" THEN time_setup + elapsed ELSE time_setup,
      downtime |-> IF cs = "RED" THEN time_downtime + elapsed ELSE time_downtime ]

\* Lines 176-180: the count after time_production became `production`.
CountAfter(cs, production) ==
    IF cs = "GREEN"
      THEN RaiseCount(ClampExpected(PyIntDiv(production, ideal_cycle_time), target_steps),
                      total_count)
      ELSE total_count

\* ----------------------------------------------------------- calculate_oee
\* A float result is kept as the exact fraction n/d, d > 0.
Frac(n, d) == [n |-> n, d |-> d]
Zero == Frac(0, 1)
One == Frac(1, 1)
Times(x, y) == Frac(x.n * y.n, x.d * y.d)

\* calculate_oee returning availability * performance as oee.
CalculateOee_OeeWithoutQuality(now, production, count) ==
    LET total_planned == now - start_time IN
    IF total_planned < 1
      THEN [a |-> Zero, p |-> Zero, q |-> Zero, o |-> Zero]
      ELSE LET a == Frac(production, total_planned)
               p == IF production > 0
                      THEN Frac(count * ideal_cycle_time, production)
                      ELSE Zero
               q == IF count > 0 THEN Frac(count - defect_count, count) ELSE One
           IN [a |-> a, p |-> p, q |-> q, o |-> Times(a, p)]

\* calculate_oee with quality 0 for an empty count.
CalculateOee_EmptyCountIsZero(now, production, count) ==
    LET total_planned == now - start_time IN
    IF total_planned < 1
      THEN [a |-> Zero, p |-> Zero, q |-> Zero, o |-> Zero]
      ELSE LET a == Frac(production, total_planned)
               p == IF production > 0
                      THEN Frac(count * ideal_cycle_time, production)
                      ELSE Zero
               q == IF count > 0 THEN Frac(count - defect_count, count) ELSE Zero
           IN [a |-> a, p |-> p, q |-> q, o |-> Times(Times(a, p), q)]

\* calculate_oee with the accumulators acc, the count and time.time() = now.
CalculateOee(now, production, count) ==
    LET total_planned == now - start_time IN
    IF total_planned < 1
      THEN [a |-> Zero, p |-> Zero, q |-> Zero, o |-> Zero]
      ELSE LET a == Frac(production, total_planned)
               p == IF production > 0
                      THEN Frac(count * ideal_cycle_time, production)
                      ELSE Zero
               q == IF count > 0 THEN Frac(count - defect_count, count) ELSE One
           IN [a |-> a, p |-> p, q |-> q, o |-> Times(Times(a, p), q)]

\* --------------------------------------------------------------- log_to_db
\* round(x * 100, 1) of the fraction x, in tenths of a percent; Python rounds
\* a tie to the even neighbour.
RoundPercent(x) ==
    LET n == 1000 * x.n
        fl == n \div x.d
        r == n - fl * x.d
    IN  IF 2 * r < x.d THEN fl
        ELSE IF 2 * r > x.d THEN fl + 1
        ELSE IF fl % 2 = 0 THEN fl ELSE fl + 1

SecondsPerDay == 86400

\* datetime.now().strftime('%H:%M:%S'): the time of day, the date dropped.
TimeOfDay(now) == now % SecondsPerDay

\* log_to_db writing the accumulators as they were before the tick.
Row_BeforeTick(now, cs, acc, count) ==
    LET m == CalculateOee(now, acc.production, count) IN
    [ timestamp |-> TimeOfDay(now),
      state |-> cs,
      prod_time |-> time_production,
      setup_time |-> time_setup,
      down_time |-> time_downtime,
      total_count |-> count,
      defect_count |-> defect_count,
      availability |-> RoundPercent(m.a),
      performance |-> RoundPercent(m.p),
      quality |-> RoundPercent(m.q),
      oee |-> RoundPercent(m.o) ]

\* The row log_to_db inserts (lines 135-147).  The accumulators are whole
\* seconds, which round(x, 1) leaves as they are.
Row(now, cs, acc, count) ==
    LET m == CalculateOee(now, acc.production, count) IN
    [ timestamp |-> TimeOfDay(now),
      state |-> cs,
      prod_time |-> acc.production,
      setup_time |-> acc.setup,
      down_time |-> acc.downtime,
      total_count |-> count,
      defect_count |-> defect_count,
      availability |-> RoundPercent(m.a),
      performance |-> RoundPercent(m.p),
      quality |-> RoundPercent(m.q),
      oee |-> RoundPercent(m.o) ]

\* ----------------------------------------------------------------- run loop
\* Line 187
StateChanged(cs) == cs /= last_logged_state

\* Line 188 with > in place of >= .
HeartbeatDue_Strict(now) == now - last_log_time > HeartbeatInterval

\* Line 188
HeartbeatDue(now) == now - last_log_time >= HeartbeatInterval

\* Lines 159-162 over every poll that decodes: the values current_state can
\* have after the read.
PolledStates ==
    { ReadState(current_state, poll) :
        poll \in {NoData} \cup {raw \in RawLines : Decodable(raw)} }

\* The bookkeeping of a link loss, advanced by the first tick after the reconnect.
OutageAfterTick(cs, elapsed) ==
    CASE outage.phase = "resumed" ->
           [outage EXCEPT !.phase = "counted", !.credited = cs, !.gap = elapsed]
      [] outage.phase = "counted" -> NoOutage
      [] OTHER -> outage

\* One iteration in which a failed write leaves last_logged_state and
\* last_log_time as they were, so that the write is tried again.
Tick_RetriesFailedWrite ==
    /\ pc = "running"
    /\ \E cs \in PolledStates, dt \in 0..MaxStep,
          log_ok \in BOOLEAN :
         LET now == clock + dt
             elapsed == now - last_update_time
             acc == Accumulate(cs, elapsed)
             count == CountAfter(cs, acc.production)
             due == StateChanged(cs) \/ HeartbeatDue(now)
         IN  /\ ~(cs = "GREEN" /\ ideal_cycle_time = 0)
             /\ now - start_time <= MaxClock
             /\ clock' = now
             /\ current_state' = cs
             /\ last_update_time' = now
             /\ time_production' = acc.production
             /\ time_setup' = acc.setup
             /\ time_downtime' = acc.downtime
             /\ total_count' = count
             /\ attributed' = [attributed EXCEPT ![cs] = @ + elapsed]
             /\ outage' = OutageAfterTick(cs, elapsed)
             /\ IF due
                  THEN /\ wrote' = IF log_ok THEN "ok" ELSE "failed"
                       /\ row' = IF log_ok THEN Row(now, cs, acc, count) ELSE NoRow
                       /\ last_logged_state' = IF log_ok THEN cs ELSE last_logged_state
                       /\ last_log_time' = IF log_ok THEN now ELSE last_log_time
                  ELSE /\ log_ok
                       /\ NoWrite
                       /\ UNCHANGED <<last_logged_state, last_log_time>>
    /\ step' = "tick"
    /\ UNCHANGED <<linkVars, adjusted, fixedVars, start_time, defect_count,
                   fault>>

\* One complete iteration of the while loop (lines 157-202): poll, update the
\* time, account, log if due, sleep.  `now` is the clock read at line 170; the
\* reads of lines 118, 188 and 200, microseconds to a database commit later,
\* fall in the same second.  log_ok is whether log_to_db returns or raises.
Tick ==
    /\ pc = "running"
    /\ \E cs \in PolledStates, dt \in 0..MaxStep,
          log_ok \in BOOLEAN :
         LET now == clock + dt
             elapsed == now - last_update_time
             acc == Accumulate(cs, elapsed)
             count == CountAfter(cs, acc.production)
             due == StateChanged(cs) \/ HeartbeatDue(now)
         IN  /\ ~(cs = "GREEN" /\ ideal_cycle_time = 0)
             /\ now - start_time <= MaxClock
             /\ clock' = now
             /\ current_state' = cs
             /\ last_update_time' = now
             /\ time_production' = acc.production
             /\ time_setup' = acc.setup
             /\ time_downtime' = acc.downtime
             /\ total_count' = count
             /\ attributed' = [attributed EXCEPT ![cs] = @ + elapsed]
             /\ outage' = OutageAfterTick(cs, elapsed)
             /\ IF due
                  THEN /\ wrote' = IF log_ok THEN "ok" ELSE "failed"
                       /\ row' = IF log_ok THEN Row(now, cs, acc, count) ELSE NoRow
                       /\ last_logged_state' = cs
                       /\ last_log_time' = now
                  ELSE /\ log_ok
                       /\ NoWrite
                       /\ UNCHANGED <<last_logged_state, last_log_time>>
    /\ step' = "tick"
    /\ UNCHANGED <<linkVars, adjusted, fixedVars, start_time, defect_count,
                   fault>>

\* Line 160: the bytes read are not valid UTF-8; decode() raises
\* UnicodeDecodeError, which neither except clause of run names.
TickDecodeError ==
    /\ pc = "running"
    /\ \E poll \in RawLines : ~Decodable(poll)
    /\ pc' = "crashed"
    /\ fault' = "UnicodeDecodeError"
    /\ step' = "tick_aborted"
    /\ NoWrite
    /\ UNCHANGED <<host, caller, ports, scan_i, port, ser, clockVars, fixedVars, accVars,
                   logVars, attributed, outage>>

\* Line 176 with ideal_cycle_time = 0: lines 170-175 have run, the division
\* raises ZeroDivisionError, which neither except clause of run names.
TickZeroDivision ==
    /\ pc = "running"
    /\ ideal_cycle_time = 0
    /\ \E cs \in PolledStates, dt \in 0..MaxStep :
         LET now == clock + dt
             elapsed == now - last_update_time
         IN  /\ cs = "GREEN"
             /\ now - start_time <= MaxClock
             /\ clock' = now
             /\ current_state' = cs
             /\ last_update_time' = now
             /\ time_production' = time_production + elapsed
             /\ attributed' = [attributed EXCEPT ![cs] = @ + elapsed]
    /\ pc' = "crashed"
    /\ fault' = "ZeroDivisionError"
    /\ step' = "tick_aborted"
    /\ NoWrite
    /\ UNCHANGED <<host, caller, ports, scan_i, port, ser, adjusted, fixedVars,
                   start_time, time_setup, time_downtime, total_count,
                   defect_count, logVars, outage>>

\* Lines 163-167: in_waiting or readline raises OSError / SerialException.
\* The handler closes the stale connection and calls get_serial_connection;
\* close() is called outside any try of the loop body.
LinkLost ==
    /\ pc = "running"
    /\ \E close_ok \in BOOLEAN :
         IF close_ok
           THEN /\ ser' = [ser EXCEPT !.open = FALSE]
                /\ pc' = "gsc_primary"
                /\ outage' = [phase |-> "lost", state |-> current_state,
                              credited |-> None, gap |-> 0]
                /\ fault' = fault
           ELSE /\ pc' = "crashed"
                /\ fault' = "OSError in close"
                /\ UNCHANGED <<ser, outage>>
    /\ step' = "link_lost"
    /\ NoWrite
    /\ UNCHANGED <<host, caller, ports, scan_i, port, clockVars, fixedVars, accVars,
                   logVars, attributed>>

\* -------------------------------------------------------------- interrupts
\* Lines 204-206: KeyboardInterrupt raised inside the while loop of run, with
\* the loop polling.  The handler prints and closes the connection; a close()
\* that raises leaves the handler and run.
InterruptRunning ==
    /\ pc = "running"
    /\ \E close_ok \in BOOLEAN :
         IF close_ok
           THEN /\ pc' = "terminated"
                /\ ser' = [ser EXCEPT !.open = FALSE]
                /\ fault' = fault
           ELSE /\ pc' = "crashed"
                /\ fault' = "OSError in close"
                /\ ser' = ser
    /\ step' = "interrupt"
    /\ NoWrite
    /\ UNCHANGED <<host, caller, ports, scan_i, port, clockVars, fixedVars, accVars,
                   logVars, attributed, outage>>

\* Both calls of get_serial_connection taken to be guarded by the handler.
InsideTryOfRun_Always(site) == TRUE

\* The call of get_serial_connection at line 166 is inside the try of run that
\* lines 204-206 handle; the call at line 60, in __init__, is inside no try.
InsideTryOfRun(site) == site = "run"

\* KeyboardInterrupt while get_serial_connection is in serial.Serial(self.port)
\* or time.sleep(2) of the primary attempt, in comports() or the for header, or
\* in time.sleep(5): `except Exception` does not catch it, so it leaves
\* get_serial_connection.  Called from run (line 166) it reaches the handler
\* of lines 204-206, whose close() finds the connection closed already (line
\* 165); called from __init__ (line 60) nothing catches it.
InterruptConnect ==
    /\ \/ pc \in {"gsc_primary", "gsc_backoff"}
       \/ pc = "gsc_scan" /\ ~(ScanPending /\ IsUsbCandidate(ports[scan_i]))
    /\ IF InsideTryOfRun(caller)
         THEN /\ pc' = "terminated"
              /\ ser' = [ser EXCEPT !.open = FALSE]
              /\ fault' = fault
         ELSE /\ pc' = "crashed"
              /\ fault' = "KeyboardInterrupt"
              /\ ser' = ser
    /\ step' = "interrupt_connect"
    /\ NoWrite
    /\ UNCHANGED <<host, caller, ports, scan_i, port, clockVars, fixedVars, accVars,
                   logVars, attributed, outage>>

\* KeyboardInterrupt inside the try of lines 108-113, the attempt on a USB
\* candidate: the bare `except: pass` of line 114 catches it and the for loop
\* goes on.  Raised in serial.Serial nothing has changed; raised in
\* time.sleep(2) the port is open, self.port is already the candidate and the
\* handle is dropped unclosed.
InterruptSwallowed ==
    /\ ScanPending
    /\ IsUsbCandidate(ports[scan_i])
    /\ \E opened \in BOOLEAN :
         IF opened
           THEN port' = ports[scan_i]
           ELSE port' = port
    /\ scan_i' = scan_i + 1
    /\ step' = "interrupt_swallowed"
    /\ NoWrite
    /\ UNCHANGED <<host, pc, caller, ports, ser, clockVars, fixedVars, accVars, logVars,
                   fault, attributed, outage>>

\* ------------------------------------------------------------ specification
Next ==
    \/ InitDbOk
    \/ InitDbFail
    \/ ConnectPrimaryOk
    \/ ConnectPrimaryFail
    \/ ScanSkip
    \/ ScanTryOk
    \/ ScanTryFail
    \/ ScanEnd
    \/ Backoff
    \/ Tick
    \/ TickDecodeError
    \/ TickZeroDivision
    \/ LinkLost
    \/ InterruptRunning
    \/ InterruptConnect
    \/ InterruptSwallowed
    \/ ClockAdjust

Spec == Init /\ [][Next]_vars

\* A run that spans midnight: the monitor is launched so that its first
\* connection is up in the last second of the day.
LaunchBeforeMidnight == SecondsPerDay - SettleDelay - 1

InitMidnight == InitAt(LaunchBeforeMidnight, HostPorts, DefaultPort, 0)

SpecMidnight == InitMidnight /\ [][Next]_vars

\* A later run against the same db_path: the table oee_logs holds a row of an
\* earlier run when the monitor is launched.
InitLaterRun == InitAt(0, HostPorts, DefaultPort, 1)

SpecLaterRun == InitLaterRun /\ [][Next]_vars

\* get_serial_connection as __init__ calls it, on hosts with no, one or two
\* USB devices and with the default or another port configured, no interrupt
\* delivered.  The process keeps taking steps as long as it can.
ConnectHosts == { <<>>, HostPorts, <<UsbA, TtyS0, UsbB>> }

ConfiguredPorts == { DefaultPort, UsbB }

InitConnect ==
    \E devices \in ConnectHosts, configured \in ConfiguredPorts :
        InitAt(0, devices, configured, 0)

NextConnect ==
    \/ InitDbOk
    \/ InitDbFail
    \/ ConnectPrimaryOk
    \/ ConnectPrimaryFail
    \/ ScanSkip
    \/ ScanTryOk
    \/ ScanTryFail
    \/ ScanEnd
    \/ Backoff

SpecConnect == InitConnect /\ [][NextConnect]_vars /\ WF_vars(NextConnect)

\* The start of the two programs on a working directory with any of the
\* config files: the dashboard calls its load_config, the monitor module runs
\* CONFIG = load_config() and OEEMonitor() reads the settings (lines 43-48).
InitConfig ==
    /\ config_yaml \in ConfigFiles
    /\ loaded = NotLoaded
    /\ prior_rows = 0
    /\ host = HostPorts
    /\ port = <<>>
    /\ ser = NoSer
    /\ pc = "load_config"
    /\ caller = "init"
    /\ ports = <<>>
    /\ scan_i = 0
    /\ clock = 0
    /\ adjusted = FALSE
    /\ target_steps = 0
    /\ ideal_cycle_time = 0
    /\ current_state = "STOPPED"
    /\ start_time = 0
    /\ time_production = 0
    /\ time_setup = 0
    /\ time_downtime = 0
    /\ last_update_time = 0
    /\ total_count = 0
    /\ defect_count = 0
    /\ last_logged_state = None
    /\ last_log_time = 0
    /\ row = NoRow
    /\ step = "start"
    /\ wrote = "none"
    /\ fault = None
    /\ attributed = [s \in ProductionStates |-> 0]
    /\ outage = NoOutage

\* dashboardv1.py: config = load_config()
DashboardStart ==
    /\ pc = "load_config"
    /\ pc' = "dashboard"
    /\ loaded' = DashboardLoadConfig(config_yaml)
    /\ step' = "load_config"
    /\ UNCHANGED <<linkVars_NoPc, clockVars, configVars, sinkVars, config_yaml, accVars,
                   logVars, wrote, row, fault, attributed, outage>>

\* oee_monitor.py: CONFIG = load_config() at import (line 21), then
\* OEEMonitor() reads its settings (lines 43-48) and goes on to init_db.  An
\* exception of either leaves the program with a traceback.
MonitorStart ==
    /\ pc = "load_config"
    /\ LET result == MonitorLoadConfig(config_yaml)
           raised == IF result.raised /= None
                       THEN result.raised
                       ELSE ReadSettings(result.config)
       IN  /\ loaded' = result
           /\ fault' = raised
           /\ IF raised /= None
                THEN /\ pc' = "crashed"
                     /\ UNCHANGED <<port, target_steps, ideal_cycle_time>>
                ELSE /\ pc' = "init_db"
                     /\ port' = result.config.serial.port
                     /\ target_steps' = result.config.production.target_steps
                     /\ ideal_cycle_time' = result.config.production.ideal_cycle_time
    /\ step' = "construct"
    /\ UNCHANGED <<host, caller, ports, scan_i, ser, clockVars, sinkVars, config_yaml,
                   accVars, logVars, wrote, row, attributed, outage>>

NextConfig ==
    \/ DashboardStart
    \/ MonitorStart

SpecConfig == InitConfig /\ [][NextConfig]_vars

\* calculate_oee as log_to_db calls it, on a monitor whose fields and clock hold
\* any values of the bounded ranges: the clock may stand before, at or after
\* start_time (it can be set back), defect_count may exceed total_count.
IdealCycleTimes == {0, 1, 2}

InitOee ==
    /\ prior_rows = 0
    /\ config_yaml = Missing
    /\ loaded = NotLoaded
    /\ host = HostPorts
    /\ port = DefaultPort
    /\ ser = [dev |-> DefaultPort, open |-> TRUE]
    /\ pc = "log_to_db"
    /\ caller = "run"
    /\ ports = <<>>
    /\ scan_i = 0
    /\ start_time = 0
    /\ clock \in -1..MaxElapsed
    /\ adjusted = (clock < SettleDelay)
    /\ target_steps = MaxCount
    /\ ideal_cycle_time \in IdealCycleTimes
    /\ current_state = "GREEN"
    /\ time_production \in 0..MaxElapsed
    /\ time_setup = 0
    /\ time_downtime = 0
    /\ last_update_time = clock
    /\ total_count \in 0..MaxCount
    /\ defect_count \in 0..MaxCount
    /\ last_logged_state = "GREEN"
    /\ last_log_time = clock
    /\ row = NoRow
    /\ step = "tick"
    /\ wrote = "none"
    /\ fault = None
    /\ attributed = [s \in ProductionStates |-> IF s = "GREEN" THEN time_production ELSE 0]
    /\ outage = NoOutage

\* log_to_db: a, p, q, oee = self.calculate_oee() (line 127), then the insert.
LogToDb ==
    /\ pc = "log_to_db"
    /\ pc' = "logged"
    /\ row' = Row(clock, current_state,
                  [production |-> time_production, setup |-> time_setup,
                   downtime |-> time_downtime],
                  total_count)
    /\ wrote' = "ok"
    /\ step' = "log_to_db"
    /\ UNCHANGED <<linkVars_NoPc, clockVars, fixedVars, accVars, logVars, fault,
                   attributed, outage>>

\* A second call with total_count raised on the way.
LogToDbAgain_Counting ==
    /\ pc = "logged"
    /\ pc' = "logged_again"
    /\ \E dt \in 0..MaxStep :
         /\ clock' = clock + dt
         /\ row' = Row(clock + dt, current_state,
                       [production |-> time_production, setup |-> time_setup,
                        downtime |-> time_downtime],
                       total_count)
    /\ total_count' = total_count + 1
    /\ wrote' = "ok"
    /\ step' = "log_to_db"
    /\ UNCHANGED <<linkVars_NoPc, adjusted, fixedVars, current_state, start_time,
                   time_production, time_setup, time_downtime, last_update_time,
                   defect_count, logVars, fault, attributed, outage>>

\* log_to_db called a second time with no tick between the two calls; the
\* clock may have moved on, calculate_oee reads it anew (line 118).
LogToDbAgain ==
    /\ pc = "logged"
    /\ pc' = "logged_again"
    /\ \E dt \in 0..MaxStep :
         /\ clock' = clock + dt
         /\ row' = Row(clock + dt, current_state,
                       [production |-> time_production, setup |-> time_setup,
                        downtime |-> time_downtime],
                       total_count)
    /\ wrote' = "ok"
    /\ step' = "log_to_db"
    /\ UNCHANGED <<linkVars_NoPc, adjusted, fixedVars, accVars, logVars, fault,
                   attributed, outage>>

NextOee ==
    \/ LogToDb
    \/ LogToDbAgain

SpecOee == InitOee /\ [][NextOee]_vars

\* ================================================================== claims
AccumulatorSum == time_production + time_setup + time_downtime

Abs(x) == IF x < 0 THEN -x ELSE x

Min(x, y) == IF x < y THEN x ELSE y

\* C1: over every sequence of ticks, link losses and clock adjustments,
\* total_count never decreases from one step to the next and never exceeds
\* target_steps.
C1_CountMonotoneAndCapped ==
    /\ [](total_count <= target_steps)
    /\ [][total_count' >= total_count]_vars

\* C1 witness: a tick in GREEN whose floor(time_production / ideal_cycle_time)
\* is above target_steps, the count standing at target_steps.
C1_Witness ==
    /\ step = "tick"
    /\ current_state = "GREEN"
    /\ ideal_cycle_time > 0
    /\ PyIntDiv(time_production, ideal_cycle_time) > target_steps
    /\ total_count = target_steps

\* C2: accounting identity.  Each accumulator holds exactly the sum of the
\* elapsed times of the ticks that ran in its state, so the three together hold
\* the elapsed time of the ticks in GREEN, YELLOW or RED, and a tick in STOPPED
\* adds to none.
C2_AccountingIdentity ==
    /\ time_production = attributed["GREEN"]
    /\ time_setup = attributed["YELLOW"]
    /\ time_downtime = attributed["RED"]
    /\ AccumulatorSum = attributed["GREEN"] + attributed["YELLOW"] + attributed["RED"]

\* C2 witness: ticks have run in all four states, each with elapsed time.
C2_Witness ==
    /\ step = "tick"
    /\ \A s \in ProductionStates : attributed[s] > 0

\* C3: after every tick total_count = min(floor(time_production /
\* ideal_cycle_time), target_steps).
C3_CountEqualsFloor ==
    (step = "tick" /\ ideal_cycle_time > 0) =>
        total_count = Min(time_production \div ideal_cycle_time, target_steps)

\* C4: no accumulator ever decreases, whatever the wall clock does between two
\* ticks.
C4_AccumulatorsNeverDecrease ==
    [][ /\ time_production' >= time_production
        /\ time_setup' >= time_setup
        /\ time_downtime' >= time_downtime ]_vars

\* C5 as claimed: after every tick the accumulators sum to the wall-clock time
\* elapsed since start_time, up to one polling interval (MaxStep, the longest
\* time between two iterations).
C5_SumTracksWallClock ==
    step = "tick" => Abs((clock - start_time) - AccumulatorSum) <= MaxStep

\* C5 as amended: the accumulators sum to the time from start_time to the last
\* tick, less the elapsed time of the ticks that ran in STOPPED.
C5_SumIsTickTimeOutsideStopped ==
    AccumulatorSum = (last_update_time - start_time) - attributed["STOPPED"]

\* C5 witness: a tick after time went by both in STOPPED and in another state.
C5_Witness ==
    /\ step = "tick"
    /\ attributed["STOPPED"] > 0
    /\ AccumulatorSum > 0

\* C6: with a clock that is never set back, the time that elapsed during a
\* link outage is added, by the first tick after the reconnect, to the
\* accumulator of the state that was current when the link was lost, whatever
\* token that tick reads; nothing is reduced.
C6_OutageCreditedToStateAtLoss ==
    (outage.phase = "counted" /\ ~adjusted /\ outage.state /= "STOPPED") =>
        /\ outage.credited = outage.state
        /\ outage.gap >= 0

\* C7: a transport fault in a poll never ends the loop: the stale connection is
\* closed and the process is in get_serial_connection, also when close() fails.
C7_LinkLossNeverEndsLoop ==
    step = "link_lost" => (pc = "gsc_primary" /\ ~ser.open)

\* C8: once run() is executing, no device input, link fault, log-write failure
\* or configuration value makes the process end with an unhandled exception:
\* run() is left only by an interrupt.
C8_RunNeverCrashes ==
    (caller = "run" /\ pc \in {"terminated", "crashed"}) =>
        step \in {"interrupt", "interrupt_connect"}

\* C9: an interrupt while the loop is polling makes the monitor attempt a final
\* log record and, terminating, close the serial connection.
C9_FinalRecordOnInterrupt ==
    (step = "interrupt" /\ pc = "terminated") => (wrote /= "none" /\ ~ser.open)

\* C10 as claimed: TERMINATED is entered only from RUNNING.
C10_TerminatedOnlyFromRunning ==
    [][(pc' = "terminated" /\ pc /= "terminated") => pc = "running"]_vars

\* C10 as amended: TERMINATED is entered from RUNNING or from RECONNECTING (an
\* interrupt during get_serial_connection called from the loop), and never from
\* CONNECTING, the get_serial_connection of __init__.
C10_TerminatedNeverFromConnecting ==
    pc = "terminated" =>
        /\ caller = "run"
        /\ step \in {"interrupt", "interrupt_connect"}

\* C10 witness: TERMINATED entered from RECONNECTING.
C10_Witness ==
    /\ pc = "terminated"
    /\ step = "interrupt_connect"
    /\ outage.phase = "lost"

\* A step that is one completed iteration of the loop.
TickStep ==
    /\ pc = "running"
    /\ pc' = "running"
    /\ step' = "tick"
    /\ adjusted' = adjusted

\* C11: hybrid trigger.  In every completed tick a log write is attempted if
\* and only if current_state differs from the state logged before or at least
\* one heartbeat interval has gone by on time.time() since the last write of
\* either kind; every attempt, event or heartbeat, restarts the heartbeat timer.
C11_HybridTrigger ==
    [][TickStep =>
        /\ (wrote' /= "none") <=>
              \/ current_state' /= last_logged_state
              \/ clock' - last_log_time >= HeartbeatInterval
        /\ wrote' /= "none" => last_log_time' = clock'
        /\ wrote' = "none" => last_log_time' = last_log_time]_vars

\* C11 witness: a tick in the second of the last write, the state as logged:
\* neither trigger holds and nothing is written.
C11_Witness ==
    /\ step = "tick"
    /\ wrote = "none"
    /\ last_log_time = clock
    /\ last_logged_state = current_state
    /\ current_state /= "STOPPED"

\* C12: every state transition is captured by exactly one event record.  The
\* first record of a session has state STOPPED, and a tick in which
\* current_state changes from s to s' writes one record with state s' (stated
\* for the ticks whose write does not fail; a tick writes at most one row).
C12_EveryTransitionRecordedOnce ==
    [][(TickStep /\ wrote' /= "failed") =>
        /\ last_logged_state = None =>
              (wrote' = "ok" /\ row'.state = "STOPPED")
        /\ current_state' /= current_state =>
              (wrote' = "ok" /\ row'.state = current_state')]_vars

\* C14: a failing log write does not end the loop and changes nothing of the
\* monitor's state: the tick leaves current_state, the accumulators and the
\* counters as the poll and the accounting set them, and every write that
\* succeeds (so the next one after a failure) carries the values current then.
C14_FailedWriteIsHarmless ==
    /\ [](wrote = "failed" => (pc = "running" /\ fault = None))
    /\ [][(TickStep /\ wrote' = "failed") =>
            LET acc == Accumulate(current_state', clock' - last_update_time) IN
            /\ time_production' = acc.production
            /\ time_setup' = acc.setup
            /\ time_downtime' = acc.downtime
            /\ total_count' = CountAfter(current_state', acc.production)
            /\ defect_count' = defect_count]_vars
    /\ [](wrote = "ok" =>
            /\ row.state = current_state
            /\ row.prod_time = time_production
            /\ row.setup_time = time_setup
            /\ row.down_time = time_downtime
            /\ row.total_count = total_count
            /\ row.defect_count = defect_count)

\* C14 witness: the loop is running after a tick whose write failed, with time
\* accounted and a count.
C14_Witness ==
    /\ step = "tick"
    /\ wrote = "failed"
    /\ pc = "running"
    /\ AccumulatorSum > 0
    /\ total_count > 0

\* C15: when init_db fails, the monitor still goes on to connect to the device
\* and run its loop, without a log.
C15_RunsWithoutLogSink ==
    step = "init_db" => (pc = "gsc_primary" /\ fault = None)

\* C16: a line that is not GREEN, YELLOW or RED once stripped leaves
\* current_state as it is and raises nothing: no tick ends in a decoding error.
C16_UnknownLineDiscarded ==
    /\ \A raw \in RawLines :
          (Decodable(raw) /\ Strip(raw) \notin {Green, Red, Yellow}) =>
              ReadState(current_state, raw) = current_state
    /\ fault /= "UnicodeDecodeError"

\* C17: current_state is always one of STOPPED, GREEN, YELLOW, RED; it starts
\* as STOPPED, and once it is no longer STOPPED no step makes it STOPPED again,
\* link losses and reconnects included.
C17_StoppedOnlyAtStart ==
    /\ current_state = "STOPPED"
    /\ [](current_state \in ProductionStates)
    /\ [][current_state /= "STOPPED" => current_state' /= "STOPPED"]_vars

\* C17 witness: the first tick after a link loss and a reconnect has run, and
\* the state is the production state held before the loss.
C17_Witness ==
    /\ step = "tick"
    /\ outage.phase = "counted"
    /\ outage.state /= "STOPPED"
    /\ current_state = outage.state

\* C13: while current_state is held constant under uninterrupted ticking, the
\* heartbeat records follow each other with strictly increasing timestamps:
\* of two successive records with the same state the later one has the
\* greater timestamp.
C13_HeartbeatTimestampsIncrease ==
    [][(TickStep /\ step = "tick" /\ wrote = "ok" /\ wrote' = "ok"
            /\ row'.state = row.state) =>
        row'.timestamp > row.timestamp]_vars

\* get_serial_connection has been called and has not returned.
Connecting == pc \in {"gsc_primary", "gsc_scan", "gsc_backoff"}

\* A connection attempt finds no device: the primary port refuses and comports()
\* lists no USB candidate, or a USB candidate refuses.
PrimaryRefuses == ConnectPrimaryFail

CandidateRefuses ==
    \/ ScanTryFail
    \/ ConnectPrimaryFail /\ ~\E i \in 1..Len(ports') : IsUsbCandidate(ports'[i])

C18_PortFollowsAdoptedCandidate ==
    /\ [][(pc = "gsc_scan" /\ pc' = "gsc_scan") => scan_i' = scan_i + 1]_vars
    /\ [][(pc = "gsc_scan" /\ pc' = "running") =>
            /\ ser' = [dev |-> ports[scan_i], open |-> TRUE]
            /\ IsUsbCandidate(ports[scan_i])
            /\ port' = ports[scan_i]]_vars
    /\ [][(pc = "gsc_primary" /\ pc' = "running") =>
            (ser' = [dev |-> port, open |-> TRUE] /\ port' = port)]_vars
    /\ [][port' /= port => (pc = "gsc_scan" /\ pc' = "running")]_vars

\* The tuple calculate_oee returns in the current state.
Metrics == CalculateOee(clock, time_production, total_count)

\* C20 as stated: calculate_oee returns quality == 1 whenever total_count == 0,
\* whatever defect_count is and whenever it is called, the first second after
\* start included.
C20_QualityOneOnEmptyCount ==
    (pc = "logged" /\ total_count = 0) =>
        (Metrics.q = One /\ row.quality = 1000)

\* C20 amended: with total_count == 0, calculate_oee returns quality == 1 for
\* every defect_count once at least one second has gone by since start_time;
\* before that (startup guard) it returns 0 for quality as for the other three.
C20_QualityOneAfterStartupGuard ==
    (pc = "logged" /\ total_count = 0) =>
        IF clock - start_time >= 1
          THEN Metrics.q = One /\ row.quality = 1000
          ELSE /\ Metrics = [a |-> Zero, p |-> Zero, q |-> Zero, o |-> Zero]
               /\ row.quality = 0

\* C20 witness: calculate_oee has been called after the first second with an
\* empty count and a defect count that is not 0, and quality is 1.
C20_Witness ==
    /\ pc = "logged"
    /\ total_count = 0
    /\ defect_count > 0
    /\ clock - start_time >= 1
    /\ row.quality = 1000

\* x = y for fractions.
FracEq(x, y) == x.n * y.d = y.n * x.d

\* The second of two calls of calculate_oee with no tick between them.
SecondCall == pc = "logged" /\ pc' = "logged_again"

SameMetrics ==
    /\ FracEq(Metrics'.a, Metrics.a)
    /\ FracEq(Metrics'.p, Metrics.p)
    /\ FracEq(Metrics'.q, Metrics.q)
    /\ FracEq(Metrics'.o, Metrics.o)
    /\ row'.availability = row.availability
    /\ row'.performance = row.performance
    /\ row'.quality = row.quality
    /\ row'.oee = row.oee

InUnit(x) == 0 <= x.n /\ x.n <= x.d

\* The inequalities the four metrics in [0, 1] amount to, at the time of the
\* last tick.
MetricsBounds ==
    /\ 0 <= time_production
    /\ time_production <= last_update_time - start_time
    /\ total_count * ideal_cycle_time <= time_production
    /\ total_count = 0 \/ (0 <= defect_count /\ defect_count <= total_count)

\* C22: in every tick sequence with non-negative elapsed times the bounds
\* hold (they hold at the start and every step other than a tick with a
\* negative elapsed time, now - last_update_time < 0, keeps them), and every record written under them has
\* availability, performance, quality and oee in [0, 1].
C22_MetricsInUnitInterval ==
    /\ MetricsBounds
    /\ [][(MetricsBounds /\ last_update_time' - last_update_time >= 0) =>
            MetricsBounds']_vars
    /\ []((step = "tick" /\ wrote = "ok" /\ MetricsBounds) =>
            /\ {row.availability, row.performance, row.quality, row.oee} \subseteq 0..1000
            /\ clock = last_update_time =>
                  /\ InUnit(Metrics.a)
                  /\ InUnit(Metrics.p)
                  /\ InUnit(Metrics.q)
                  /\ InUnit(Metrics.o))

\* C22 witness: a record with availability and performance strictly between 0
\* and 1 has been written after the clock was set back, all elapsed times
\* having been non-negative.
C22_Witness ==
    /\ step = "tick"
    /\ wrote = "ok"
    /\ adjusted
    /\ MetricsBounds
    /\ row.availability \in 1..999
    /\ row.performance \in 1..999

\* calculate_oee has been called.
Called == pc \in {"logged", "logged_again"}

\* C23: the oee calculate_oee returns is the product of the availability,
\* performance and quality of the same call, for all accumulator and counter
\* values, the startup guard with its four zeros included.
C23_OeeIsProduct ==
    Called =>
        /\ FracEq(Metrics.o, Times(Times(Metrics.a, Metrics.p), Metrics.q))
        /\ clock - start_time < 1 =>
              (Metrics.o = Zero /\ Metrics.a = Zero /\ Metrics.p = Zero /\ Metrics.q = Zero)

\* C23 witness: a call past the startup guard with all three factors other
\* than 0 and quality below 1.
C23_Witness ==
    /\ Called
    /\ clock - start_time >= 1
    /\ defect_count > 0
    /\ defect_count < total_count
    /\ Metrics.a.n > 0
    /\ Metrics.p.n > 0
    /\ Metrics.o.n > 0

\* C24: the records of a run form their own session log, kept apart from the
\* records of earlier runs: a row the run inserts goes into a table that holds
\* no row of an earlier run, or it names its session.
C24_RunHasItsOwnSessionLog ==
    wrote = "ok" => (prior_rows = 0 \/ "session" \in DOMAIN row)

\* The production settings a file provides, as a mapping; none if it is
\* missing, not YAML, null, or without a production mapping.
Provided(file) ==
    IF file \in {Missing, Unparseable} THEN NoKeys
    ELSE IF file.value = Null THEN NoKeys
    ELSE IF "production" \notin DOMAIN file.value THEN NoKeys
    ELSE IF file.value.production = Null THEN NoKeys
    ELSE file.value.production

\* C25: the dashboard's load_config returns the production defaults
\* (target_steps 30, ideal_cycle_time 20.0) when there is no config.yaml, and
\* with a file it returns for each production setting the file's value if the
\* file provides one and the default if not.
C25_DefaultsAndFileValues ==
    pc = "dashboard" =>
        /\ config_yaml = Missing =>
              loaded.config.production = [target_steps |-> 30, ideal_cycle_time |-> 20]
        /\ \A k \in {"target_steps", "ideal_cycle_time"} :
              loaded.config.production[k] =
                 IF k \in DOMAIN Provided(config_yaml)
                   THEN Provided(config_yaml)[k]
                   ELSE DefaultProduction[k]

\* C25 witness: load_config has read a file that provides target_steps 50 and
\* no ideal_cycle_time, and returns 50 with the default 20.
C25_Witness ==
    /\ pc = "dashboard"
    /\ Provided(config_yaml) = [target_steps |-> 50]
    /\ loaded.config.production = [target_steps |-> 50, ideal_cycle_time |-> 20]

\* C26: a config file that is not YAML, is empty or lacks a section or a
\* setting never makes the monitor fail at startup: OEEMonitor() is
\* constructed, with the default for every setting the file does not give.
C26_MonitorSurvivesBadConfig ==
    (step = "construct" /\ config_yaml /= Missing) =>
        /\ pc = "init_db"
        /\ fault = None
        /\ target_steps =
              IF "target_steps" \in DOMAIN Provided(config_yaml)
                THEN Provided(config_yaml).target_steps
                ELSE DefaultTargetSteps
        /\ ideal_cycle_time =
              IF "ideal_cycle_time" \in DOMAIN Provided(config_yaml)
                THEN Provided(config_yaml).ideal_cycle_time
                ELSE DefaultIdealCycleTime

\* A relative path leaves the directory it starts in when at some component
\* more ".." than names have been passed; an absolute path (all of them lie
\* elsewhere here) is outside from the start.
ResolvesOutside(path) ==
    \/ IsAbs(path)
    \/ \E n \in 1..Len(path) :
          Cardinality({i \in 1..n : path[i] = DotDot}) >
          Cardinality({i \in 1..n : path[i] /= DotDot})

\* C27: a configured data_path that resolves outside the allowed directory
\* tree is rejected: load_config warns and returns the default data_path.
C27_EscapingDataPathRejected ==
    (/\ pc = "dashboard"
     /\ loaded.raised = None
     /\ config_yaml.kind = "document"
     /\ Truthy(config_yaml.value)
     /\ "data_path" \in DOMAIN config_yaml.value
     /\ ResolvesOutside(config_yaml.value.data_path)) =>
        (loaded.warning /\ loaded.config.data_path = DefaultLogDir)

\* C28: an interrupt delivered while run() is executing, in the loop or in
\* get_serial_connection during a reconnect, stops the loop and leaves the
\* serial connection closed (stated for the interrupts whose handling raises
\* nothing); none is swallowed.
C28_InterruptStopsRun ==
    (/\ caller = "run"
     /\ step \in {"interrupt", "interrupt_connect", "interrupt_swallowed"}
     /\ fault = None) =>
        (pc = "terminated" /\ ~ser.open)

\* A step of the loop iteration that detects a link loss: the handler of
\* lines 163-167, from the exception of the poll to the return of
\* get_serial_connection.
LinkLossIteration ==
    /\ caller = "run"
    /\ \/ pc = "running" /\ step' = "link_lost" /\ pc' \in {"gsc_primary", "crashed"}
       \/ Connecting

\* C29: the iteration that detects a link loss changes only the connection
\* handle and possibly self.port; current_state, the accumulators, the
\* counters, last_update_time, the last logged state and the last log time
\* stay as they are and no record is written.
C29_LinkLossFrame ==
    [][LinkLossIteration =>
        /\ UNCHANGED <<current_state, time_production, time_setup, time_downtime,
                       total_count, defect_count, last_update_time,
                       last_logged_state, last_log_time>>
        /\ wrote' = "none"
        /\ row' = NoRow]_vars

\* C29 witness: the loop is back after a link loss with time accounted before
\* it, on a candidate port that get_serial_connection adopted.
C29_Witness ==
    /\ pc = "running"
    /\ outage.phase = "resumed"
    /\ AccumulatorSum > 0
    /\ port /= DefaultPort
    /\ ser = [dev |-> port, open |-> TRUE]

\* C30: a failed write attempt marks the state as logged and restarts the
\* heartbeat timer as a successful one does; in the ticks after it no write
\* is attempted while current_state stays and less than one heartbeat
\* interval has gone by, and the next attempt with the state unchanged is the
\* heartbeat, whose record carries that state.
C30_FailedWriteCountsAsLogged ==
    /\ [][(TickStep /\ wrote' /= "none") =>
            (last_logged_state' = current_state' /\ last_log_time' = clock')]_vars
    /\ [][(TickStep /\ step = "tick" /\ wrote = "failed"
              /\ current_state' = current_state) =>
            /\ (wrote' /= "none") <=> (clock' - last_log_time >= HeartbeatInterval)
            /\ wrote' = "ok" => row'.state = current_state]_vars

\* C30 witness: a tick whose event write failed has left the new state marked
\* as logged and the heartbeat timer at the time of the tick.
C30_Witness ==
    /\ step = "tick"
    /\ wrote = "failed"
    /\ pc = "running"
    /\ current_state /= "STOPPED"
    /\ last_logged_state = current_state
    /\ last_log_time = clock

\* C31: while the clock has never been set back, the three accumulators sum
\* to at most last_update_time - start_time; the sum is strictly smaller
\* after a tick that ran in STOPPED (the first tick, whose elapsed time holds
\* the connection wait, among them) and stays strictly smaller from then on;
\* hence the availability calculate_oee returns is at most 1 in every state.
C31_SumWithinRunTime ==
    /\ [](~adjusted => AccumulatorSum <= last_update_time - start_time)
    /\ [][(TickStep /\ ~adjusted' /\ current_state' = "STOPPED") =>
            AccumulatorSum' < last_update_time' - start_time']_vars
    /\ [][(~adjusted' /\ AccumulatorSum < last_update_time - start_time) =>
            AccumulatorSum' < last_update_time' - start_time']_vars
    /\ []((~adjusted /\ clock - start_time >= 1) => Metrics.a.n <= Metrics.a.d)

\* C31 witness: with a clock never set back, ticks have run in STOPPED and
\* then in GREEN, and the sum of the accumulators is below the time from
\* start_time to the last tick, the availability below 1.
C31_Witness ==
    /\ ~adjusted
    /\ step = "tick"
    /\ current_state = "GREEN"
    /\ attributed["STOPPED"] >= SettleDelay
    /\ time_production > 0
    /\ AccumulatorSum < last_update_time - start_time
    /\ Metrics.a.n < Metrics.a.d

====
